---- MODULE Spec2Model ----
(***************************************************************************)
(* Peer-evaluation pipeline: the token / submission state machine.        *)
(*                                                                         *)
(* Spec     the serving regime: stage 2 mints tokens into the token file,  *)
(*          stage 3 imports the file into the SQLite store, the Flask      *)
(*          handlers GET /evaluate and POST /api/submit run concurrently,  *)
(*          one store call (one SQLite transaction) per step.              *)
(* SpecSeq    one POST /api/submit with any body, GET /evaluate and the    *)
(*            administrator's resets.                                      *)
(* SpecScore  one POST /api/submit whose entries carry any score.          *)
(* SpecGen    the in-memory TokenGenerator (generate_token,                *)
(*            validate_token).                                             *)
(* SpecMint   one minting session of stage 2.                              *)
(* SpecAssign the perfect-mode assignment of AssignmentEngine.             *)
(* SpecVan    the consensus run of EnhancedGraph on one review graph.      *)
(* SpecExport the generator's tokens exported, imported and validated.     *)
(* SpecPipeline a minting session exported, imported and one POST.         *)
(***************************************************************************)
EXTENDS Integers, Sequences, FiniteSets, TLC

\* ---------------------------------------------------------------- bounds
MaxTime == 2          \* the clock runs 0..MaxTime
ExpiryTicks == 1      \* TOKEN_EXPIRY_DAYS, in clock ticks
MaxRequests == 2      \* POST /api/submit requests per run
MaxViews == 1         \* GET /evaluate requests per run
MaxBody == 2          \* entries in a request's submissions list
MaxFaults == 1        \* store calls that raise (database locked, I/O error)
MaxClears == 1        \* runs of the CLI's clear command
MaxPairs == 2         \* (evaluator, paper) pairs of a minting session
MaxStudents == 4      \* students of an assignment run
MaxIterations == 2    \* n_iterations of evaluate_with_reputation
MaxRuns == 2          \* runs of evaluate_with_reputation on one graph

\* ------------------------------------------------------------ value sets
NULL == 0 - 1                       \* SQL NULL / Python None in a time column
None == [none |-> TRUE]             \* Python None where a dict is expected
TokenStrings == {"t1", "t2"}        \* the token strings the random source draws
QUESTIONS == <<"Q1", "Q2">>         \* question_list of the minting session
QuestionIds == {"Q1", "Q2", "QX"}   \* question_id values a client can send
Pairs == <<[evaluator_id |-> "A", target_id |-> "B"],
           [evaluator_id |-> "B", target_id |-> "A"]>>
Requests == 1..MaxRequests
Views == 1..MaxViews

VARIABLES
    now,          \* datetime.now()
    tokenFile,    \* the latest evaluation_tokens_*.json: a list of token dicts
    tokens,       \* table tokens: token string -> row
    submissions,  \* table submissions: list of rows in insertion order
    nextId,       \* AUTOINCREMENT counter of submissions
    logs,         \* table submission_logs: list of rows in insertion order
    reqs,         \* POST /api/submit handlers: locals and position
    views,        \* GET /evaluate handlers: locals and position
    faults,       \* store calls that have raised so far
    clears,       \* clear_database runs so far
    genTokens,    \* TokenGenerator.tokens (in-memory dict)
    ret           \* return value of the last TokenGenerator call

vars == <<now, tokenFile, tokens, submissions, nextId, logs, reqs, views,
          faults, clears, genTokens, ret>>

storeVars == <<tokens, submissions, nextId, logs>>
genVars == <<genTokens, ret>>

\* ------------------------------------------------------------- helpers
Range(s) == {s[i] : i \in DOMAIN s}

SeqsUpTo(S, n) == UNION {[1..k -> S] : k \in 0..n}

RowsOf(token) == SelectSeq(submissions, LAMBDA row : row.token = token)

\* A store call either commits or raises; a raise is swallowed by the
\* method's "except Exception" and shows as its failure return value.
Outcomes == IF faults < MaxFaults THEN {TRUE, FALSE} ELSE {TRUE}

\* ------------------------------------------------- stage 2: TokenGenerator
\* generate_token with evaluator and target exchanged.
generate_token_swapped(token_str, evaluator_id, target_id, questions) ==
    [token |-> token_str,
     evaluator_id |-> target_id,
     target_id |-> evaluator_id,
     questions |-> questions,
     created_at |-> now,
     expires_at |-> now + ExpiryTicks,
     status |-> "pending",
     submission_time |-> NULL,
     ip_address |-> NULL,
     used |-> FALSE]

generate_token(token_str, evaluator_id, target_id, questions) ==
    [token |-> token_str,
     evaluator_id |-> evaluator_id,
     target_id |-> target_id,
     questions |-> questions,
     created_at |-> now,
     expires_at |-> now + ExpiryTicks,
     status |-> "pending",
     submission_time |-> NULL,
     ip_address |-> NULL,
     used |-> FALSE]

\* generate_tokens_from_assignments + export_tokens, with the random source
\* drawing strs[i] for the i-th (evaluator, assigned paper) of assignments.
generate_tokens_from_assignments(assignments, strs) ==
    [i \in DOMAIN assignments |->
        generate_token(strs[i], assignments[i].evaluator_id,
                       assignments[i].target_id, QUESTIONS)]

\* ------------------------------------------------------- store: tokens
TokenRow(token_data) ==
    [evaluator_id |-> token_data.evaluator_id,
     target_id |-> token_data.target_id,
     questions |-> token_data.questions,
     created_at |-> token_data.created_at,
     expires_at |-> token_data.expires_at,
     status |-> token_data.status,
     is_used |-> token_data.used,
     used_at |-> NULL,
     ip_address |-> NULL,
     user_agent |-> NULL]

\* save_token with INSERT OR REPLACE in place of INSERT.
save_token_replace(tbl, token_data) ==
    [ok |-> TRUE,
     tbl |-> [t \in DOMAIN tbl \cup {token_data.token} |->
                IF t = token_data.token THEN TokenRow(token_data)
                ELSE tbl[t]]]

save_token(tbl, token_data) ==
    IF token_data.token \in DOMAIN tbl
    THEN [ok |-> FALSE, tbl |-> tbl]
    ELSE [ok |-> TRUE,
          tbl |-> [t \in DOMAIN tbl \cup {token_data.token} |->
                     IF t = token_data.token THEN TokenRow(token_data)
                     ELSE tbl[t]]]

RECURSIVE save_tokens_batch(_, _)
save_tokens_batch(tbl, list) ==
    IF list = <<>> THEN tbl
    ELSE save_tokens_batch(save_token(tbl, Head(list)).tbl, Tail(list))

get_token_info(token) ==
    IF token \in DOMAIN tokens THEN tokens[token] ELSE None

\* validate_token without the expiry check.
validate_token_no_expiry(token) ==
    LET token_info == get_token_info(token) IN
    IF token_info = None
    THEN [valid |-> FALSE, info |-> None, msg |-> "not_found"]
    ELSE IF token_info.is_used
    THEN [valid |-> FALSE, info |-> token_info, msg |-> "used"]
    ELSE IF token_info.status # "pending"
    THEN [valid |-> FALSE, info |-> token_info, msg |-> "status"]
    ELSE [valid |-> TRUE, info |-> token_info, msg |-> ""]

validate_token(token) ==
    LET token_info == get_token_info(token) IN
    IF token_info = None
    THEN [valid |-> FALSE, info |-> None, msg |-> "not_found"]
    ELSE IF token_info.is_used
    THEN [valid |-> FALSE, info |-> token_info, msg |-> "used"]
    ELSE IF token_info.status # "pending"
    THEN [valid |-> FALSE, info |-> token_info, msg |-> "status"]
    ELSE IF now > token_info.expires_at
    THEN [valid |-> FALSE, info |-> token_info, msg |-> "expired"]
    ELSE [valid |-> TRUE, info |-> token_info, msg |-> ""]

\* mark_token_used with the UPDATE leaving status alone.
mark_token_used_keeps_status(tbl, token, ip_address, user_agent) ==
    IF token \in DOMAIN tbl
    THEN [ok |-> TRUE,
          tbl |-> [tbl EXCEPT ![token] =
                     [@ EXCEPT !.is_used = TRUE,
                               !.used_at = now,
                               !.ip_address = ip_address,
                               !.user_agent = user_agent]]]
    ELSE [ok |-> FALSE, tbl |-> tbl]

\* The UPDATE's row count and the table after it.
mark_token_used(tbl, token, ip_address, user_agent) ==
    IF token \in DOMAIN tbl
    THEN [ok |-> TRUE,
          tbl |-> [tbl EXCEPT ![token] =
                     [@ EXCEPT !.is_used = TRUE,
                               !.status = "submitted",
                               !.used_at = now,
                               !.ip_address = ip_address,
                               !.user_agent = user_agent]]]
    ELSE [ok |-> FALSE, tbl |-> tbl]

\* -------------------------------------------------- store: submissions
save_submission(submission_data) ==
    [id |-> nextId,
     token |-> submission_data.token,
     evaluator_id |-> submission_data.evaluator_id,
     target_id |-> submission_data.target_id,
     question_id |-> submission_data.question_id,
     score |-> submission_data.score,
     submitted_at |-> now,
     ip_address |-> submission_data.ip_address,
     user_agent |-> submission_data.user_agent]

\* --------------------------------------------------------- store: logs
\* log_action recording every action as 'submit'.
log_action_as_submit(token, action, ip_address) ==
    [token |-> token, action |-> "submit", ip_address |-> ip_address]

log_action(token, action, ip_address) ==
    [token |-> token, action |-> action, ip_address |-> ip_address]

\* --------------------------------------------------------------- Init
EmptyTable == [t \in {} |-> None]

\* marked: what mark_token_used returned to the handler (line 449).
IdleReq == [pc |-> "idle", token |-> "", body |-> <<>>, idx |-> 0,
            info |-> None, ids |-> <<>>, marked |-> "not_called",
            status |-> 0, msg |-> ""]

IdleView == [pc |-> "idle", token |-> "", status |-> 0, page |-> "",
             info |-> None, form |-> None]

\* Stage 2 has run at time 0: the token file holds one token per pair.
MintedFile == generate_tokens_from_assignments(Pairs, <<"t1", "t2">>)

Init ==
    /\ now = 0
    /\ tokenFile = MintedFile
    /\ tokens = EmptyTable
    /\ submissions = <<>>
    /\ nextId = 1
    /\ logs = <<>>
    /\ reqs = [r \in Requests |-> IdleReq]
    /\ views = [v \in Views |-> IdleView]
    /\ faults = 0
    /\ clears = 0
    /\ genTokens = EmptyTable
    /\ ret = [op |-> "none"]

\* ------------------------------------------------------------- the clock
Tick ==
    /\ now < MaxTime
    /\ now' = now + 1
    /\ UNCHANGED <<tokenFile, storeVars, reqs, views, faults, clears, genVars>>

\* --------------------------------------------- stage 3: import_tokens_to_db
tokens_to_import ==
    [i \in DOMAIN tokenFile |->
        [token |-> tokenFile[i].token,
         evaluator_id |-> tokenFile[i].evaluator_id,
         target_id |-> tokenFile[i].target_id,
         questions |-> tokenFile[i].questions,
         created_at |-> tokenFile[i].created_at,
         expires_at |-> tokenFile[i].expires_at,
         status |-> tokenFile[i].status,
         used |-> tokenFile[i].used]]

\* The run saves the first n tokens of the file (n < Len: the run is killed
\* after n committed save_token calls).
ImportTokens ==
    /\ tokenFile # <<>>
    /\ \E n \in 1..Len(tokenFile) :
          tokens' = save_tokens_batch(tokens, SubSeq(tokens_to_import, 1, n))
    /\ UNCHANGED <<now, tokenFile, submissions, nextId, logs, reqs, views,
                   faults, clears, genVars>>

\* -------------------------------------------------- tool_db_cli: clear
\* DELETE FROM every table; the AUTOINCREMENT counter is kept.
clear_database ==
    /\ clears < MaxClears
    /\ clears' = clears + 1
    /\ tokens' = EmptyTable
    /\ submissions' = <<>>
    /\ logs' = <<>>
    /\ UNCHANGED <<now, tokenFile, nextId, reqs, views, faults, genVars>>

\* stage3_db_init, choice 2: os.remove(db_path), then a fresh database.
reinit_database ==
    /\ clears < MaxClears
    /\ clears' = clears + 1
    /\ tokens' = EmptyTable
    /\ submissions' = <<>>
    /\ logs' = <<>>
    /\ nextId' = 1
    /\ UNCHANGED <<now, tokenFile, reqs, views, faults, genVars>>

\* ------------------------------------------------ POST /api/submit
Malformed == [score |-> 0]          \* an entry without a question_id key

Entries(scores) ==
    {[question_id |-> q, score |-> s] : q \in QuestionIds, s \in scores}
        \cup {Malformed}

LowestIdle(tbl, r) == tbl[r].pc = "idle" /\ \A q \in 1..(r - 1) : tbl[q].pc # "idle"

\* lines 409-428: read the body, then validate_token (one read transaction).
Submit(r, bodies) ==
    /\ LowestIdle(reqs, r)
    /\ \E token \in TokenStrings, body \in bodies :
          LET v == validate_token(token) IN
          reqs' = [reqs EXCEPT ![r] =
                     IF body = <<>>
                     THEN [@ EXCEPT !.pc = "done", !.token = token,
                                    !.status = 400, !.msg = "missing_fields"]
                     ELSE IF ~v.valid
                     THEN [@ EXCEPT !.pc = "done", !.token = token,
                                    !.body = body,
                                    !.status = 403, !.msg = v.msg]
                     ELSE IF v.info.is_used
                     THEN [@ EXCEPT !.pc = "done", !.token = token,
                                    !.body = body,
                                    !.status = 400, !.msg = "used"]
                     ELSE [@ EXCEPT !.pc = "save", !.token = token,
                                    !.body = body, !.info = v.info,
                                    !.idx = 1]]
    /\ UNCHANGED <<now, tokenFile, storeVars, views, faults, clears, genVars>>

AfterSave(r) == IF reqs[r].idx = Len(reqs[r].body) THEN "mark" ELSE "save"

\* lines 435-446: one loop iteration, one save_submission transaction.
SaveSubmission(r) ==
    /\ reqs[r].pc = "save"
    /\ LET sub == reqs[r].body[reqs[r].idx] IN
       IF "question_id" \notin DOMAIN sub
       THEN \* KeyError: the handler's except clause takes over
            /\ reqs' = [reqs EXCEPT ![r].pc = "error"]
            /\ UNCHANGED <<submissions, nextId, faults>>
       ELSE \E ok \in Outcomes :
            IF ok /\ sub.score # NULL
            THEN /\ submissions' = Append(submissions, save_submission(
                        [token |-> reqs[r].token,
                         evaluator_id |-> reqs[r].info.evaluator_id,
                         target_id |-> reqs[r].info.target_id,
                         question_id |-> sub.question_id,
                         score |-> sub.score,
                         ip_address |-> r,
                         user_agent |-> r]))
                 /\ nextId' = nextId + 1
                 /\ reqs' = [reqs EXCEPT ![r].ids = Append(@, nextId),
                                         ![r].idx = @ + 1,
                                         ![r].pc = AfterSave(r)]
                 /\ UNCHANGED faults
            ELSE /\ faults' = IF ok THEN faults ELSE faults + 1
                 /\ reqs' = [reqs EXCEPT ![r].ids = Append(@, NULL),
                                         ![r].idx = @ + 1,
                                         ![r].pc = AfterSave(r)]
                 /\ UNCHANGED <<submissions, nextId>>
    /\ UNCHANGED <<now, tokenFile, tokens, logs, views, clears, genVars>>

\* lines 448-453: the return value is not looked at.
MarkTokenUsed(r) ==
    /\ reqs[r].pc = "mark"
    /\ \E ok \in Outcomes :
          LET m == mark_token_used(tokens, reqs[r].token, r, r) IN
          IF ok
          THEN /\ tokens' = m.tbl
               /\ reqs' = [reqs EXCEPT ![r].pc = "log", ![r].marked = IF m.ok THEN "true" ELSE "false"]
               /\ UNCHANGED faults
          ELSE /\ faults' = faults + 1
               /\ reqs' = [reqs EXCEPT ![r].pc = "log", ![r].marked = "false"]
               /\ UNCHANGED tokens
    /\ UNCHANGED <<now, tokenFile, submissions, nextId, logs, views, clears,
                   genVars>>

\* lines 455-468
LogSubmit(r) ==
    /\ reqs[r].pc = "log"
    /\ \E ok \in Outcomes :
          IF ok
          THEN /\ logs' = Append(logs, log_action(reqs[r].token, "submit", r))
               /\ UNCHANGED faults
          ELSE /\ faults' = faults + 1
               /\ UNCHANGED logs
    /\ reqs' = [reqs EXCEPT ![r].pc = "done", ![r].status = 200,
                            ![r].msg = "success"]
    /\ UNCHANGED <<now, tokenFile, tokens, submissions, nextId, views, clears,
                   genVars>>

\* lines 470-485
LogError(r) ==
    /\ reqs[r].pc = "error"
    /\ \E ok \in Outcomes :
          IF ok
          THEN /\ logs' = Append(logs, log_action(reqs[r].token, "error", r))
               /\ UNCHANGED faults
          ELSE /\ faults' = faults + 1
               /\ UNCHANGED logs
    /\ reqs' = [reqs EXCEPT ![r].pc = "done", ![r].status = 500,
                            ![r].msg = "exception"]
    /\ UNCHANGED <<now, tokenFile, tokens, submissions, nextId, views, clears,
                   genVars>>

\* ------------------------------------------------ GET /evaluate
\* midterm_data.json: both students gave the same answers.
StudentAnswers ==
    [s \in {"A", "B"} |-> [q \in Range(QUESTIONS) |-> "answer"]]

load_student_answers(student_id) ==
    IF student_id \in DOMAIN StudentAnswers THEN StudentAnswers[student_id]
    ELSE [q \in {} |-> ""]

\* lines 343-379: what the handler passes to evaluation_form.html.
form_data(token, token_info) ==
    LET target_answers == load_student_answers(token_info.target_id) IN
    [token |-> token,
     evaluator_name |-> token_info.evaluator_id,
     target_id |-> token_info.target_id,
     questions |-> [i \in DOMAIN token_info.questions |->
                      LET qid == token_info.questions[i] IN
                      [id |-> qid,
                       student_answer |->
                          IF qid \in DOMAIN target_answers
                          THEN target_answers[qid]
                          ELSE "empty"]]]

\* lines 316-341
ViewValidate(v) ==
    /\ LowestIdle(views, v)
    /\ \E token \in TokenStrings :
          LET val == validate_token(token) IN
          views' = [views EXCEPT ![v] =
                      IF val.info # None /\ val.info.is_used
                      THEN [@ EXCEPT !.pc = "done", !.token = token,
                                     !.status = 200,
                                     !.page = "already_submitted"]
                      ELSE IF ~val.valid
                      THEN [@ EXCEPT !.pc = "done", !.token = token,
                                     !.status = 403, !.page = "error"]
                      ELSE [@ EXCEPT !.pc = "log", !.token = token,
                                     !.info = val.info,
                                     !.form = form_data(token, val.info)]]
    /\ UNCHANGED <<now, tokenFile, storeVars, reqs, faults, clears, genVars>>

\* lines 381-390
ViewLog(v) ==
    /\ views[v].pc = "log"
    /\ \E ok \in Outcomes :
          IF ok
          THEN /\ logs' = Append(logs, log_action(views[v].token, "view", MaxRequests + v))
               /\ UNCHANGED faults
          ELSE /\ faults' = faults + 1
               /\ UNCHANGED logs
    /\ views' = [views EXCEPT ![v].pc = "done", ![v].status = 200,
                              ![v].page = "form"]
    /\ UNCHANGED <<now, tokenFile, tokens, submissions, nextId, reqs, clears,
                   genVars>>

\* ------------------------------------------------ the server process dies
Running(h) == h.pc \notin {"idle", "done", "crashed"}

Crash ==
    /\ \E h \in Range(reqs) \cup Range(views) : Running(h)
    /\ reqs' = [r \in Requests |->
                  IF Running(reqs[r]) THEN [reqs[r] EXCEPT !.pc = "crashed"]
                  ELSE reqs[r]]
    /\ views' = [v \in Views |->
                  IF Running(views[v]) THEN [views[v] EXCEPT !.pc = "crashed"]
                  ELSE views[v]]
    /\ UNCHANGED <<now, tokenFile, storeVars, faults, clears, genVars>>

\* ------------------------------------------- TokenGenerator, in memory
\* generate_token, lines 129-132: self.tokens[token_str] = token
GenGenerateToken ==
    /\ \E token_str \in TokenStrings, i \in DOMAIN Pairs :
          LET token == generate_token(token_str, Pairs[i].evaluator_id,
                                      Pairs[i].target_id, QUESTIONS) IN
          /\ genTokens' = [t \in DOMAIN genTokens \cup {token_str} |->
                             IF t = token_str THEN token ELSE genTokens[t]]
          /\ ret' = [op |-> "generate_token", token |-> token]
    /\ UNCHANGED <<now, tokenFile, storeVars, reqs, views, faults, clears>>

\* TokenGenerator.validate_token: the return value and self.tokens after it.
gen_validate_token(token_str) ==
    IF token_str \notin DOMAIN genTokens
    THEN [valid |-> FALSE, token |-> None, msg |-> "not_found",
          tokens |-> genTokens]
    ELSE LET token == genTokens[token_str] IN
         IF token.used
         THEN [valid |-> FALSE, token |-> token, msg |-> "used",
               tokens |-> genTokens]
         ELSE IF now > token.expires_at
         THEN [valid |-> FALSE,
               token |-> [token EXCEPT !.status = "expired"],
               msg |-> "expired",
               tokens |-> [genTokens EXCEPT ![token_str].status = "expired"]]
         ELSE IF token.status # "pending"
         THEN [valid |-> FALSE, token |-> token, msg |-> "status",
               tokens |-> genTokens]
         ELSE [valid |-> TRUE, token |-> token, msg |-> "",
               tokens |-> genTokens]

GenValidateToken ==
    /\ \E token_str \in TokenStrings :
          LET v == gen_validate_token(token_str) IN
          /\ genTokens' = v.tokens
          /\ ret' = [op |-> "validate_token", token_str |-> token_str,
                     valid |-> v.valid, token |-> v.token, msg |-> v.msg]
    /\ UNCHANGED <<now, tokenFile, storeVars, reqs, views, faults, clears>>

\* ---------------------------------------------------------------- Spec
\* The answer a client gives question by question, cut short or overlong.
Canon == [i \in 1..MaxBody |->
            [question_id |-> IF i <= Len(QUESTIONS) THEN QUESTIONS[i] ELSE "QX",
             score |-> 0]]
SubmitBodies == {SubSeq(Canon, 1, k) : k \in 0..MaxBody}

\* Every body a client can send.
AllBodies == SeqsUpTo(Entries({0}), MaxBody)

\* The serving regime: concurrent POST /api/submit handlers on the store.
Next ==
    \/ Tick
    \/ ImportTokens
    \/ \E r \in Requests : Submit(r, SubmitBodies)
    \/ \E r \in Requests : SaveSubmission(r)
    \/ \E r \in Requests : MarkTokenUsed(r)
    \/ \E r \in Requests : LogSubmit(r)
    \/ Crash

Spec == Init /\ [][Next]_vars

\* One POST /api/submit with any body, GET /evaluate, and the clear command.
NextSeq ==
    \/ Tick
    \/ ImportTokens
    \/ clear_database
    \/ reinit_database
    \/ Submit(1, AllBodies)
    \/ SaveSubmission(1)
    \/ MarkTokenUsed(1)
    \/ LogSubmit(1)
    \/ LogError(1)
    \/ \E v \in Views : ViewValidate(v)
    \/ \E v \in Views : ViewLog(v)
    \/ Crash

SpecSeq == Init /\ [][NextSeq]_vars

\* One POST /api/submit whose entries name the token's questions and carry
\* any score a client can send.
max_score_per_question == 20

Scores == {0 - 2, 0, max_score_per_question, max_score_per_question + 1}

ScoreBodies ==
    SeqsUpTo({[question_id |-> q, score |-> s] :
                 q \in Range(QUESTIONS), s \in Scores}, MaxBody)

NextScore ==
    \/ Tick
    \/ ImportTokens
    \/ Submit(1, ScoreBodies)
    \/ SaveSubmission(1)
    \/ MarkTokenUsed(1)
    \/ LogSubmit(1)

SpecScore == Init /\ [][NextScore]_vars

\* One minting session of stage 2: a new TokenGenerator mints for the
\* (evaluator, assigned paper) pairs of an assignment; self.tokens is keyed by
\* token string, a later token replacing an earlier one of the same string.
StudentPairs ==
    {[evaluator_id |-> e, target_id |-> t] : e, t \in {"A", "B"}}

MintAssignments ==
    {a \in SeqsUpTo(StudentPairs, MaxPairs) :
        \A i, j \in DOMAIN a : a[i] = a[j] => i = j}

RECURSIVE TokensByString(_)
TokensByString(list) ==
    IF list = <<>> THEN EmptyTable
    ELSE LET rest == TokensByString(SubSeq(list, 1, Len(list) - 1))
             last == list[Len(list)]
         IN [t \in DOMAIN rest \cup {last.token} |->
               IF t = last.token THEN last ELSE rest[t]]

MintSession ==
    /\ \E assignments \in MintAssignments :
       \E strs \in [DOMAIN assignments -> TokenStrings] :
          LET student_tokens ==
                  generate_tokens_from_assignments(assignments, strs) IN
          /\ genTokens' = TokensByString(student_tokens)
          /\ ret' = [op |-> "generate_tokens_from_assignments",
                     assignments |-> assignments,
                     student_tokens |-> student_tokens]
    /\ UNCHANGED <<now, tokenFile, storeVars, reqs, views, faults, clears>>

NextMint ==
    \/ Tick
    \/ MintSession

SpecMint == Init /\ [][NextMint]_vars

\* ------------------------------------------------ AssignmentEngine
\* self.students after random.shuffle: the students 1..n in any order.
Shuffles(n) ==
    {p \in [1..n -> 1..n] : \A i, j \in 1..n : p[i] = p[j] => i = j}

validate_assignment_feasibility(total_students, assignments_per_student, allow_self_evaluation) ==
    LET max_possible == IF allow_self_evaluation THEN total_students
                        ELSE total_students - 1
    IN IF assignments_per_student > max_possible THEN FALSE
       ELSE IF assignments_per_student <= 0 THEN FALSE
       ELSE TRUE

\* The first offset tried with self evaluation forbidden, set to 2.
initial_offset_two(allow_self_evaluation) ==
    IF ~allow_self_evaluation THEN 2 ELSE 0

\* line 175: offset = 1 if not allow_self_evaluation else 0
initial_offset(allow_self_evaluation) ==
    IF ~allow_self_evaluation THEN 1 ELSE 0

\* lines 176-188: the while loop of the evaluator at 0-based position i.
RECURSIVE assigned_papers_loop(_, _, _, _, _, _)
assigned_papers_loop(shuffled_students, i, assignments_per_student, allow_self_evaluation, offset, assigned_papers) ==
    IF ~(Len(assigned_papers) < assignments_per_student) THEN assigned_papers
    ELSE LET total_students == Len(shuffled_students)
             target_index == (i + offset) % total_students
             target_student == shuffled_students[target_index + 1]
             evaluator == shuffled_students[i + 1]
             appended == IF allow_self_evaluation
                            \/ target_student # evaluator
                         THEN Append(assigned_papers, target_student)
                         ELSE assigned_papers
         IN IF offset + 1 > total_students THEN appended
            ELSE assigned_papers_loop(shuffled_students, i,
                                      assignments_per_student,
                                      allow_self_evaluation, offset + 1,
                                      appended)

\* lines 190-194: the evaluators appended to paper_owner, evaluator after
\* evaluator in shuffled order.
RECURSIVE evaluators_of(_, _, _, _)
evaluators_of(paper_owner, shuffled_students, papers, upto) ==
    IF upto = 0 THEN <<>>
    ELSE LET evaluator == shuffled_students[upto]
             hits == SelectSeq(papers[evaluator],
                               LAMBDA t : t = paper_owner)
         IN evaluators_of(paper_owner, shuffled_students, papers, upto - 1)
               \o [h \in DOMAIN hits |-> evaluator]

generate_perfect_balanced_assignments(shuffled_students, assignments_per_student, allow_self_evaluation) ==
    LET total_students == Len(shuffled_students)
        papers == [student \in 1..total_students |->
                     LET i == CHOOSE x \in 0..(total_students - 1) :
                                 shuffled_students[x + 1] = student
                     IN assigned_papers_loop(
                            shuffled_students, i, assignments_per_student,
                            allow_self_evaluation,
                            initial_offset(allow_self_evaluation), <<>>)]
    IN [student \in 1..total_students |->
          [assigned_papers |-> papers[student],
           evaluators |-> evaluators_of(student, shuffled_students, papers,
                                        total_students)]]

\* assignments_per_student values a configuration can hold.
PerStudent == 0..(MaxStudents + 1)

\* generate_assignments in 'perfect' mode, called as it is.
GenerateAssignments ==
    /\ \E n \in 1..MaxStudents, k \in PerStudent, allow \in BOOLEAN :
       \E shuffled \in Shuffles(n) :
          ret' = [op |-> "generate_assignments",
                  shuffled_students |-> shuffled,
                  assignments_per_student |-> k,
                  allow_self_evaluation |-> allow,
                  assignments |->
                     generate_perfect_balanced_assignments(shuffled, k,
                                                           allow)]
    /\ UNCHANGED <<now, tokenFile, storeVars, reqs, views, faults, clears,
                   genTokens>>

\* main: validate_assignment_feasibility, then generate_assignments; an
\* infeasible configuration ends the run with no assignment.
AssignmentMain ==
    /\ \E n \in 1..MaxStudents, k \in PerStudent, allow \in BOOLEAN :
       \E shuffled \in Shuffles(n) :
          ret' = [op |-> IF validate_assignment_feasibility(n, k, allow)
                         THEN "main_exported" ELSE "main_infeasible",
                  shuffled_students |-> shuffled,
                  assignments_per_student |-> k,
                  allow_self_evaluation |-> allow,
                  assignments |->
                     IF validate_assignment_feasibility(n, k, allow)
                     THEN generate_perfect_balanced_assignments(shuffled, k,
                                                                allow)
                     ELSE <<>>]
    /\ UNCHANGED <<now, tokenFile, storeVars, reqs, views, faults, clears,
                   genTokens>>

NextAssign ==
    \/ GenerateAssignments
    \/ AssignmentMain

SpecAssign == Init /\ [][NextAssign]_vars

\* ------------------------------------------------ EnhancedGraph
\* Floats are exact fractions [n, d] in lowest terms with d > 0.
RECURSIVE GCD(_, _)
GCD(a, b) == IF b = 0 THEN a ELSE GCD(b, a % b)

Abs(x) == IF x < 0 THEN 0 - x ELSE x

Frac(n, d) ==
    LET g == GCD(Abs(n), Abs(d))
        sgn == IF d < 0 THEN 0 - 1 ELSE 1
    IN [n |-> (sgn * n) \div g, d |-> (sgn * d) \div g]

Float(i) == [n |-> i, d |-> 1]

FAdd(x, y) == Frac(x.n * y.d + y.n * x.d, x.d * y.d)
FSub(x, y) == Frac(x.n * y.d - y.n * x.d, x.d * y.d)
FMul(x, y) == Frac(x.n * y.n, x.d * y.d)
FDiv(x, y) == Frac(x.n * y.d, x.d * y.n)
FLess(x, y) == x.n * y.d < y.n * x.d
FMax(x, y) == IF FLess(x, y) THEN y ELSE x
FMin(x, y) == IF FLess(y, x) THEN y ELSE x
FAbs(x) == [n |-> Abs(x.n), d |-> x.d]

RECURSIVE ISqrt(_, _, _)
ISqrt(x, lo, hi) ==
    IF lo >= hi THEN lo
    ELSE LET mid == (lo + hi + 1) \div 2 IN
         IF mid * mid <= x THEN ISqrt(x, mid, hi) ELSE ISqrt(x, lo, mid - 1)

\* np.sqrt of a value that evaluate_users produced as a square.
FSqrt(x) == [n |-> ISqrt(x.n, 0, x.n), d |-> ISqrt(x.d, 0, x.d)]

RECURSIVE FSum(_, _)
FSum(f, S) ==
    IF S = {} THEN Float(0)
    ELSE LET e == CHOOSE e \in S : TRUE IN FAdd(f[e], FSum(f, S \ {e}))

FMean(f, S) == FDiv(FSum(f, S), Float(Cardinality(S)))

\* create_vancouver_graph: EnhancedGraph(R_max=1.0, v_G=8.0, alpha=0.1, N=4)
R_max == 1
v_G == 8
N == 4
alpha == Frac(1, 10)
lambda_param == FDiv(Float(R_max), Float(v_G))

\* add_review: the graph is the grade of every (username, item_id) reviewed.
UsersOf(reviews) == {e[1] : e \in DOMAIN reviews}
ItemsOf(reviews) == {e[2] : e \in DOMAIN reviews}
ItemUsers(reviews, item) == {u \in UsersOf(reviews) : <<u, item>> \in DOMAIN reviews}
UserItems(reviews, user) == {i \in ItemsOf(reviews) : <<user, i>> \in DOMAIN reviews}

\* The total scores a reviewer can have given a paper.
Grades == {0, 20}

\* The students of a consensus run; a student's paper carries the student's id.
Students == {1, 2, 3}

ReviewPairs == {e \in Students \X Students : e[1] # e[2]}

ReviewGraphs ==
    UNION {[P -> Grades] : P \in (SUBSET ReviewPairs) \ {{}}}

\* evaluate_items: item.grade of every item.
evaluate_items(reviews, reputation) ==
    [item \in ItemsOf(reviews) |->
       LET us == ItemUsers(reviews, item)
           weighted_sum ==
               FSum([u \in us |-> FMul(Float(reviews[<<u, item>>]),
                                       reputation[u])], us)
           total_weight == FSum(reputation, us)
       IN IF FLess(Float(0), total_weight)
          THEN FDiv(weighted_sum, total_weight)
          ELSE FMean([u \in us |-> Float(reviews[<<u, item>>])], us)]

\* evaluate_users with the difference replaced by the sum.
evaluate_users_sum(reviews, grade) ==
    [user \in UsersOf(reviews) |->
       LET its == UserItems(reviews, user)
           mean == FMean([i \in its |->
                            FAdd(Float(reviews[<<user, i>>]), grade[i])], its)
       IN FMul(mean, mean)]

\* evaluate_users: user.variance of every user.
evaluate_users(reviews, grade) ==
    [user \in UsersOf(reviews) |->
       LET its == UserItems(reviews, user)
           mean == FMean([i \in its |->
                            FAbs(FSub(Float(reviews[<<user, i>>]), grade[i]))],
                         its)
       IN FMul(mean, mean)]

\* calculate_reputation_scores without the max(0.0, ...).
calculate_reputation_scores_unclamped(variance) ==
    [user \in DOMAIN variance |->
       FSub(Float(R_max), FMul(lambda_param, FSqrt(variance[user])))]

calculate_reputation_scores(variance) ==
    [user \in DOMAIN variance |->
       LET variance_sqrt == FSqrt(FMax(Float(0), variance[user])) IN
       FMax(Float(0), FSub(Float(R_max), FMul(lambda_param, variance_sqrt)))]

calculate_incentive_weights(reviews, reputation) ==
    [user \in UsersOf(reviews) |->
       LET m_j == Cardinality(UserItems(reviews, user))
           participation_factor == FDiv(FMin(Float(m_j), Float(N)), Float(N))
       IN FMul(participation_factor, reputation[user])]

weighted_grade(q_hat, theta) ==
    FAdd(FMul(FSub(Float(1), alpha), q_hat),
         FMul(FMul(alpha, theta), Float(100)))

\* calculate_final_grades without the protection.
final_grade_unprotected(q_hat, theta) == weighted_grade(q_hat, theta)

\* line 201: final_grade = max(q_hat, weighted_grade)
final_grade(q_hat, theta) == FMax(q_hat, weighted_grade(q_hat, theta))

calculate_final_grades(reviews, grade, incentive_weight, reputation, variance) ==
    [user \in UsersOf(reviews) \cap DOMAIN grade |->
       LET q_hat == grade[user]
           theta == incentive_weight[user]
       IN [consensus_score |-> q_hat,
           incentive_weight |-> theta,
           final_grade |-> final_grade(q_hat, theta),
           weighted_grade |-> weighted_grade(q_hat, theta),
           protection_used |->
              /\ final_grade(q_hat, theta) = q_hat
              /\ FLess(weighted_grade(q_hat, theta), q_hat),
           reputation |-> reputation[user],
           variance |-> variance[user]]]

NoFloats == [x \in {} |-> Float(0)]

\* evaluate_with_reputation, step 1 starting a later run from what the
\* reviewer lost in the run before.
initial_reputation_leftover(reviews, reputation) ==
    [user \in UsersOf(reviews) |->
       IF user \in DOMAIN reputation
       THEN FSub(Float(R_max), reputation[user]) ELSE Float(R_max)]

\* evaluate_with_reputation, step 1: user.reputation = self.R_max
initial_reputation(reviews, reputation) ==
    [user \in UsersOf(reviews) |-> Float(R_max)]

\* create_vancouver_graph and add_evaluations_to_graph
VanBuild ==
    /\ ret.op = "none"
    /\ \E reviews \in ReviewGraphs :
          ret' = [op |-> "vancouver", phase |-> "built", reviews |-> reviews,
                  reputation |-> NoFloats, variance |-> NoFloats,
                  grade |-> NoFloats, incentive_weight |-> NoFloats,
                  iteration |-> 0, runs |-> 0,
                  final_grades |-> <<>>, first_grades |-> <<>>]
    /\ UNCHANGED <<now, tokenFile, storeVars, reqs, views, faults, clears,
                   genTokens>>

\* evaluate_with_reputation is entered (lines 222-224).
VanStartRun ==
    /\ ret.op = "vancouver"
    /\ ret.phase \in {"built", "finished"}
    /\ ret.runs < MaxRuns
    /\ ret' = [ret EXCEPT
                 !.phase = "iterating",
                 !.iteration = 0,
                 !.reputation = initial_reputation(ret.reviews, ret.reputation),
                 !.first_grades = ret.final_grades]
    /\ UNCHANGED <<now, tokenFile, storeVars, reqs, views, faults, clears,
                   genTokens>>

\* one pass of the loop (lines 227-235)
VanIterate ==
    /\ ret.op = "vancouver"
    /\ ret.phase = "iterating"
    /\ ret.iteration < MaxIterations
    /\ LET grade == evaluate_items(ret.reviews, ret.reputation)
           variance == evaluate_users(ret.reviews, grade)
       IN ret' = [ret EXCEPT
                    !.grade = grade,
                    !.variance = variance,
                    !.reputation = calculate_reputation_scores(variance),
                    !.iteration = @ + 1]
    /\ UNCHANGED <<now, tokenFile, storeVars, reqs, views, faults, clears,
                   genTokens>>

\* lines 244-263
VanFinish ==
    /\ ret.op = "vancouver"
    /\ ret.phase = "iterating"
    /\ ret.iteration = MaxIterations
    /\ LET incentive_weight ==
              calculate_incentive_weights(ret.reviews, ret.reputation)
       IN ret' = [ret EXCEPT
                    !.phase = "finished",
                    !.runs = @ + 1,
                    !.incentive_weight = incentive_weight,
                    !.final_grades =
                       calculate_final_grades(ret.reviews, ret.grade,
                                              incentive_weight,
                                              ret.reputation, ret.variance)]
    /\ UNCHANGED <<now, tokenFile, storeVars, reqs, views, faults, clears,
                   genTokens>>

NextVan ==
    \/ VanBuild
    \/ VanStartRun
    \/ VanIterate
    \/ VanFinish

SpecVan == Init /\ [][NextVan]_vars

\* export_tokens: the generator's token objects, as dicts, become the
\* latest token file.
export_tokens ==
    LET strs == SelectSeq(<<"t1", "t2">>, LAMBDA t : t \in DOMAIN genTokens)
    IN [i \in DOMAIN strs |-> genTokens[strs[i]]]

ExportTokens ==
    /\ genTokens # EmptyTable
    /\ tokenFile' = export_tokens
    /\ UNCHANGED <<now, storeVars, reqs, views, faults, clears, genVars>>

\* DatabaseManager.validate_token called at time now: its return value.
DbValidateToken ==
    /\ \E token \in TokenStrings :
          LET v == validate_token(token) IN
          ret' = [op |-> "db_validate_token", token |-> token, at |-> now,
                  valid |-> v.valid, info |-> v.info, msg |-> v.msg]
    /\ UNCHANGED <<now, tokenFile, storeVars, reqs, views, faults, clears,
                   genTokens>>

\* Stage 2 and stage 3 by hand: tokens are generated and validated in the
\* generator, exported, imported, and validated against the store.
NextExport ==
    \/ Tick
    \/ GenGenerateToken
    \/ GenValidateToken
    \/ ExportTokens
    \/ ImportTokens
    \/ DbValidateToken

SpecExport == Init /\ [][NextExport]_vars

\* ------------------------------------------------ ResultCollectorWeb
\* collect_results: all_evaluations of every target, from get_all_submissions.
RowsFor(evaluator_id, target_id) ==
    SelectSeq(submissions, LAMBDA row : row.evaluator_id = evaluator_id
                                        /\ row.target_id = target_id)

RECURSIVE SumScores(_)
SumScores(rows) ==
    IF rows = <<>> THEN 0 ELSE Head(rows).score + SumScores(Tail(rows))

\* export_for_vancouver: evaluator_scores[evaluator_id][target_id]
export_for_vancouver ==
    [p \in {<<submissions[i].evaluator_id, submissions[i].target_id>> :
               i \in DOMAIN submissions} |->
        SumScores(RowsFor(p[1], p[2]))]

\* main of stage 2 runs once: one minting session, then the export.
MainMint ==
    /\ ret.op = "none"
    /\ MintSession

\* main of stage 2: the tokens of the minting session go to the token file.
MainExport ==
    /\ ret.op = "generate_tokens_from_assignments"
    /\ ret.student_tokens # <<>>
    /\ tokenFile' = ret.student_tokens
    /\ UNCHANGED <<now, storeVars, reqs, views, faults, clears, genVars>>

\* The pipeline from the assignment file to a submission: stage 2 mints and
\* exports, stage 3 imports, one POST /api/submit.
NextPipeline ==
    \/ Tick
    \/ MainMint
    \/ MainExport
    \/ ImportTokens
    \/ Submit(1, SubmitBodies)
    \/ SaveSubmission(1)
    \/ MarkTokenUsed(1)
    \/ LogSubmit(1)

SpecPipeline == Init /\ [][NextPipeline]_vars

\* The in-memory TokenGenerator.
NextGen ==
    \/ Tick
    \/ GenGenerateToken
    \/ GenValidateToken

SpecGen == Init /\ [][NextGen]_vars

\* ====================================================== the claims
RowsBy(r) == SelectSeq(submissions, LAMBDA row : row.ip_address = r)

\* The handler got past validate_token: it saw the token pending and unexpired.
Accepted(r) == reqs[r].info # None

Success(r) == reqs[r].pc = "done" /\ reqs[r].status = 200

\* The request r leaves "idle" in this step: the handler runs lines 409-428.
Arrives(r) == reqs[r].pc = "idle" /\ reqs'[r].pc # "idle"

Rejected(h) == h.pc = "done" /\ h.status \in {400, 403}

\* C1: of the concurrent POST /api/submit requests for one pending token,
\* exactly one returns success; no two of them both see the token pending,
\* both mark it used and both return success.
C1_ExactlyOneSuccess ==
    \A r1, r2 \in Requests :
        (/\ Success(r1) /\ Success(r2)
         /\ reqs[r1].token = reqs[r2].token
         /\ reqs[r1].marked = "true" /\ reqs[r2].marked = "true")
        => r1 = r2

\* C2: submission acceptance is all-or-nothing: for a request that was
\* accepted, its token is either unused with none of the request's rows
\* stored, or used with all of the request's rows stored.
C2_AllOrNothing ==
    \A r \in Requests :
        (Accepted(r) /\ reqs[r].token \in DOMAIN tokens) =>
            \/ /\ ~tokens[reqs[r].token].is_used
               /\ RowsBy(r) = <<>>
            \/ /\ tokens[reqs[r].token].is_used
               /\ Len(RowsBy(r)) = Len(reqs[r].body)

\* C3: when POST /api/submit returns success for a token, the token is marked
\* used and it has as many submission rows as it has questions.
C3_SuccessComplete ==
    [][\A r \in Requests :
          (reqs[r].pc = "log" /\ reqs'[r].pc = "done") =>
             LET t == reqs[r].token IN
             /\ t \in DOMAIN tokens'
             /\ tokens'[t].is_used
             /\ Len(SelectSeq(submissions', LAMBDA row : row.token = t))
                  = Len(tokens'[t].questions)]_vars

\* C4: once a POST /api/submit has returned success for a token, every later
\* POST /api/submit for that token is rejected and leaves the store unchanged.
C4_LaterRejected ==
    [][\A r, r2 \in Requests :
          (Success(r) /\ Arrives(r2) /\ reqs'[r2].token = reqs[r].token) =>
             (Rejected(reqs'[r2]) /\ UNCHANGED storeVars)]_vars

\* C5: every stored token has is_used = true <=> status = 'submitted'
\* <=> used_at is not null.
C5_TokenFlagsAgree ==
    \A t \in DOMAIN tokens :
        /\ tokens[t].is_used <=> tokens[t].status = "submitted"
        /\ tokens[t].is_used <=> tokens[t].used_at # NULL

\* C5 witness: one token has been consumed by a request, another is pending.
C5_Witness ==
    \E t, u \in DOMAIN tokens, r \in Requests :
        /\ tokens[t].is_used /\ tokens[t].ip_address = r /\ Success(r)
        /\ ~tokens[u].is_used

\* C6 as stated: a token that is used stays stored, used and submitted in
\* every step of every operation.
C6_Monotonic ==
    [][\A t \in DOMAIN tokens :
          tokens[t].is_used =>
             /\ t \in DOMAIN tokens'
             /\ tokens'[t].is_used
             /\ tokens'[t].status = "submitted"]_vars

\* C6 amended: a token that is used stays stored, used and submitted in every
\* step except a reset of the database (clear_database, or the removal of the
\* database file by stage 3), which deletes every token.
C6_MonotonicUnlessReset ==
    [][\A t \in DOMAIN tokens :
          (tokens[t].is_used /\ clears' = clears) =>
             /\ t \in DOMAIN tokens'
             /\ tokens'[t].is_used
             /\ tokens'[t].status = "submitted"]_vars

\* C6 witness: a token was consumed at an earlier time and a later
\* GET /evaluate found it used.
C6_Witness ==
    \E t \in DOMAIN tokens, v \in Views :
        /\ tokens[t].is_used
        /\ tokens[t].used_at < now
        /\ views[v].token = t
        /\ views[v].page = "already_submitted"

\* C7: a POST /api/submit that arrives for a token whose expires_at has passed
\* is rejected, and writes nothing then or later; a token that has expired
\* stays expired.
C7_ExpiredRejected ==
    [][/\ \A r \in Requests :
            (/\ Arrives(r)
             /\ reqs'[r].token \in DOMAIN tokens
             /\ now > tokens[reqs'[r].token].expires_at)
            => (Rejected(reqs'[r]) /\ UNCHANGED storeVars)
       /\ \A r \in Requests :
            Rejected(reqs'[r]) =>
               /\ SelectSeq(submissions', LAMBDA row : row.ip_address = r) = <<>>
               /\ reqs'[r].marked = "not_called"
       /\ \A t \in DOMAIN tokens \cap DOMAIN tokens' :
            now > tokens[t].expires_at => now' > tokens'[t].expires_at]_vars

\* C7 witness: a request was rejected because its token had expired, and the
\* token is still unused with no row stored for it.
C7_Witness ==
    \E r \in Requests :
        /\ Rejected(reqs[r]) /\ reqs[r].msg = "expired"
        /\ reqs[r].token \in DOMAIN tokens
        /\ ~tokens[reqs[r].token].is_used
        /\ RowsOf(reqs[r].token) = <<>>

\* C8: validate_token is a pure read: a call changes no token of the
\* generator and no row of the store.
C8_ValidatePure ==
    [][ret'.op = "validate_token" => UNCHANGED <<genTokens, storeVars>>]_vars

\* C9: mark_token_used on a token that is already used is rejected and leaves
\* used_at, ip_address and user_agent as the first consumption recorded them.
C9_MarkOnlyPending ==
    [][/\ \A t \in DOMAIN tokens \cap DOMAIN tokens' :
            tokens[t].is_used =>
               /\ tokens'[t].used_at = tokens[t].used_at
               /\ tokens'[t].ip_address = tokens[t].ip_address
               /\ tokens'[t].user_agent = tokens[t].user_agent
       /\ \A r \in Requests :
            (/\ reqs[r].pc = "mark" /\ reqs'[r].pc = "log"
             /\ reqs[r].token \in DOMAIN tokens
             /\ tokens[reqs[r].token].is_used)
            => reqs'[r].marked = "false"]_vars

\* The question_ids of a body differ from the token's questions: an entry has
\* none, one is missing, one is extra or one is repeated.
QuestionMismatch(body, questions) ==
    IF \E i \in DOMAIN body : "question_id" \notin DOMAIN body[i]
    THEN TRUE
    ELSE \/ Len(body) # Len(questions)
         \/ {body[i].question_id : i \in DOMAIN body} # Range(questions)

\* C10: a POST /api/submit for a valid pending token whose question_ids are
\* not exactly the token's questions is rejected with 400, inserts no row and
\* leaves the token pending.
C10_MismatchRejected ==
    \A r \in Requests :
        (Accepted(r) /\ QuestionMismatch(reqs[r].body, reqs[r].info.questions))
        => /\ reqs[r].pc = "done" /\ reqs[r].status = 400
           /\ RowsBy(r) = <<>>
           /\ reqs[r].marked = "not_called"

InRange(score) == 0 <= score /\ score <= max_score_per_question

\* C11: every stored submission row has a score in 0..max_score_per_question,
\* and a POST /api/submit carrying a score outside that range is rejected
\* with 400, inserts no row and leaves the token pending.
C11_ScoresInRange ==
    /\ \A i \in DOMAIN submissions : InRange(submissions[i].score)
    /\ \A r \in Requests :
          (Accepted(r) /\ \E i \in DOMAIN reqs[r].body :
                             ~InRange(reqs[r].body[i].score))
          => /\ reqs[r].pc = "done" /\ reqs[r].status = 400
             /\ RowsBy(r) = <<>>
             /\ reqs[r].marked = "not_called"

\* C12: the status of GET /evaluate and POST /api/submit follows the token's
\* state: unknown token 404, expired or wrong-state token 403, used token 200
\* (already-submitted page) on GET and 403 on POST, valid token served.
C12_StatusTaxonomy ==
    [][LET TaxonomyStatus(t, used_status) ==
               IF t \notin DOMAIN tokens THEN 404
               ELSE IF tokens[t].is_used THEN used_status
               ELSE IF tokens[t].status # "pending"
                          \/ now > tokens[t].expires_at
                    THEN 403
               ELSE 0
       IN
       /\ \A r \in Requests :
            (Arrives(r) /\ reqs'[r].body # <<>>) =>
               LET st == TaxonomyStatus(reqs'[r].token, 403) IN
               IF st = 0 THEN reqs'[r].pc = "save"
               ELSE reqs'[r].pc = "done" /\ reqs'[r].status = st
       /\ \A v \in Views :
            (views[v].pc = "idle" /\ views'[v].pc # "idle") =>
               LET st == TaxonomyStatus(views'[v].token, 200) IN
               IF st = 0 THEN views'[v].pc = "log"
               ELSE views'[v].pc = "done" /\ views'[v].status = st]_vars

\* C13: when GET /evaluate or POST /api/submit answers with an error status
\* (400, 403, 404, 500), the log already holds a record of that request with
\* action = 'error'.
C13_ErrorsLogged ==
    [][/\ \A r \in Requests :
            (/\ reqs[r].pc # "done" /\ reqs'[r].pc = "done"
             /\ reqs'[r].status \in {400, 403, 404, 500})
            => \E i \in DOMAIN logs' :
                  logs'[i] = log_action(reqs'[r].token, "error", r)
       /\ \A v \in Views :
            (/\ views[v].pc # "done" /\ views'[v].pc = "done"
             /\ views'[v].status \in {400, 403, 404, 500})
            => \E i \in DOMAIN logs' :
                  logs'[i] = log_action(views'[v].token, "error",
                                        MaxRequests + v)]_vars

\* C14: what GET /evaluate hands to the form for a valid pending token does
\* not hold the token's target_id: the same token with another target whose
\* answers are identical gets the same form data.
C14_FormHidesTarget ==
    \A v \in Views :
        views[v].page = "form" =>
           /\ "target_id" \notin DOMAIN views[v].form
           /\ \A s \in DOMAIN StudentAnswers :
                 load_student_answers(s)
                     = load_student_answers(views[v].info.target_id)
                 => form_data(views[v].token,
                              [views[v].info EXCEPT !.target_id = s])
                        = views[v].form

\* C15: save_tokens_batch is all-or-nothing: an import that changes the
\* tokens table had no token of its batch stored before and has every token
\* of the batch stored after; with a conflict the table stays as it was.
C15_BatchAtomic ==
    [][(DOMAIN tokens' # DOMAIN tokens /\ clears' = clears) =>
          /\ \A i \in DOMAIN tokens_to_import :
                tokens_to_import[i].token \notin DOMAIN tokens
          /\ \A i \in DOMAIN tokens_to_import :
                tokens_to_import[i].token \in DOMAIN tokens']_vars

\* C16: save_submission rejects a submission whose token is not stored, so
\* every row of submissions references a stored token.
C16_SubmissionsReferenceTokens ==
    \A i \in DOMAIN submissions : submissions[i].token \in DOMAIN tokens

Minted == ret.op = "generate_tokens_from_assignments"

\* C17: a minting session emits exactly one token for every assigned
\* (evaluator, paper) pair and no other token; every token is pending,
\* unused, expires after it was created and carries the session's questions.
C17_MintBijection ==
    Minted =>
       LET a == ret.assignments
           toks == ret.student_tokens
           PairOf(tok) == [evaluator_id |-> tok.evaluator_id,
                           target_id |-> tok.target_id]
       IN /\ \A p \in Range(a) :
                Cardinality({i \in DOMAIN toks : PairOf(toks[i]) = p}) = 1
          /\ \A i \in DOMAIN toks : PairOf(toks[i]) \in Range(a)
          /\ \A i \in DOMAIN toks :
                /\ toks[i].status = "pending"
                /\ toks[i].used = FALSE
                /\ toks[i].expires_at > toks[i].created_at
                /\ toks[i].questions = QUESTIONS

\* C17 witness: a session has minted for two pairs that differ in their
\* evaluator and in their target.
C17_Witness ==
    /\ Minted
    /\ Len(ret.student_tokens) = 2
    /\ ret.assignments[1].evaluator_id # ret.assignments[2].evaluator_id
    /\ ret.assignments[1].evaluator_id # ret.assignments[1].target_id

\* C18: after a minting session the emitted token strings are pairwise
\* distinct and the generator's table has one entry per emitted token; a
\* repeated string never yields two tokens or replaces the earlier one.
C18_NoCollision ==
    Minted =>
       /\ \A i, j \in DOMAIN ret.student_tokens :
             ret.student_tokens[i].token = ret.student_tokens[j].token
             => i = j
       /\ Cardinality(DOMAIN genTokens) = Len(ret.student_tokens)

Assigned == ret.op \in {"generate_assignments", "main_exported"}

\* C19: for every feasible k (1 <= k <= n-1 without self evaluation,
\* 1 <= k <= n with it) and every shuffle, the perfect-mode assignment gives
\* each reviewer exactly k distinct papers, each paper exactly k evaluators,
\* and no reviewer their own paper when self evaluation is forbidden.
C19_PerfectBalanced ==
    Assigned =>
       LET n == Len(ret.shuffled_students)
           k == ret.assignments_per_student
           allow == ret.allow_self_evaluation
           a == ret.assignments
       IN (1 <= k /\ k <= IF allow THEN n ELSE n - 1) =>
             \A s \in 1..n :
                /\ Len(a[s].assigned_papers) = k
                /\ Cardinality(Range(a[s].assigned_papers)) = k
                /\ Len(a[s].evaluators) = k
                /\ allow \/ s \notin Range(a[s].assigned_papers)

\* C19 witness: four students in a shuffled order, three papers each,
\* self evaluation forbidden.
C19_Witness ==
    /\ Assigned
    /\ ret.shuffled_students = <<3, 1, 4, 2>>
    /\ ret.assignments_per_student = 3
    /\ ~ret.allow_self_evaluation
    /\ ret.assignments[3].assigned_papers = <<1, 4, 2>>

\* C20: generating assignments with an infeasible combination (k > n-1
\* without self evaluation, k > n with it, or k <= 0) produces no
\* assignment; no returned assignment has a reviewer with fewer than k papers.
C20_InfeasibleFails ==
    LET n == Len(ret.shuffled_students)
        k == ret.assignments_per_student
        allow == ret.allow_self_evaluation
    IN /\ (ret.op \in {"generate_assignments", "main_exported",
                       "main_infeasible"}
           /\ (k <= 0 \/ k > IF allow THEN n ELSE n - 1))
          => ret.assignments = <<>>
       /\ Assigned =>
             \A s \in DOMAIN ret.assignments :
                Len(ret.assignments[s].assigned_papers) >= k

\* ------------------------------------------------ consensus engine
Finished == ret.op = "vancouver" /\ ret.phase = "finished"

InBounds(x) == ~FLess(x, Float(0)) /\ ~FLess(Float(R_max), x)

\* C22: after every iteration of evaluate_with_reputation and at its end,
\* every reviewer's reputation and incentive weight lie in 0..R_max.
C22_ReputationBounds ==
    ret.op = "vancouver" =>
      /\ \A u \in DOMAIN ret.reputation : InBounds(ret.reputation[u])
      /\ \A u \in DOMAIN ret.incentive_weight :
            InBounds(ret.incentive_weight[u])

\* one reviewer more than v_G away from the consensus is held at 0 while
\* another keeps a positive reputation and incentive weight
C22_Witness ==
    /\ Finished
    /\ \E u \in DOMAIN ret.variance :
          /\ FLess(Float(v_G * v_G), ret.variance[u])
          /\ ret.reputation[u] = Float(0)
          /\ ret.incentive_weight[u] = Float(0)
    /\ \E u \in DOMAIN ret.reputation :
          /\ FLess(Float(0), ret.reputation[u])
          /\ FLess(Float(0), ret.incentive_weight[u])
          /\ FLess(ret.incentive_weight[u], Float(R_max))

\* C23: the consensus run yields a final-grade record for every student
\* whose paper received at least one review, a student who submitted no
\* review included.
C23_EveryReviewedPaperGraded ==
    Finished =>
      \A s \in ItemsOf(ret.reviews) : s \in DOMAIN ret.final_grades

\* every reviewer of a paper reports the same score, the paper's true score
Honest(reviews) ==
    \A e \in DOMAIN reviews : \A f \in DOMAIN reviews :
        e[2] = f[2] => reviews[e] = reviews[f]

\* C24: with uniformly honest reviewers, after the run every paper's
\* consensus equals its true score, every reviewer's variance is 0 and every
\* reviewer's reputation equals R_max.
C24_HonestConverges ==
    (Finished /\ Honest(ret.reviews)) =>
      /\ \A e \in DOMAIN ret.reviews : ret.grade[e[2]] = Float(ret.reviews[e])
      /\ \A u \in UsersOf(ret.reviews) :
            /\ ret.variance[u] = Float(0)
            /\ ret.reputation[u] = Float(R_max)

C24_Witness ==
    /\ Finished
    /\ Honest(ret.reviews)
    /\ \E i \in ItemsOf(ret.reviews) :
          Cardinality(ItemUsers(ret.reviews, i)) = 2
    /\ \E e \in DOMAIN ret.reviews : \E f \in DOMAIN ret.reviews :
          ret.reviews[e] # ret.reviews[f]

\* C25: a second run of evaluate_with_reputation on the same graph, started
\* from the state the first run left, yields the final grades of the first.
C25_Idempotent ==
    (Finished /\ ret.runs >= 2) => ret.final_grades = ret.first_grades

\* the first run left a reputation below R_max and a protected grade behind
C25_Witness ==
    /\ Finished
    /\ ret.runs = 2
    /\ \E u \in DOMAIN ret.reputation : ret.reputation[u] # Float(R_max)
    /\ \E s \in DOMAIN ret.first_grades : ret.first_grades[s].protection_used

\* C26: DatabaseManager.validate_token classifies a token by the first rule
\* that matches, in the order absent, is_used, now > expires_at (expired),
\* status # pending (invalid state), valid; an unused token that has
\* expired and whose status is not pending is reported as expired.
C26_ValidationOrder ==
    ret.op = "db_validate_token" =>
       ret.msg = (IF ret.info = None THEN "not_found"
                  ELSE IF ret.info.is_used THEN "used"
                  ELSE IF ret.at > ret.info.expires_at THEN "expired"
                  ELSE IF ret.info.status # "pending" THEN "status"
                  ELSE "")

\* The form page goes out to view v in this step.
Served(v) == views[v].pc = "log" /\ views'[v].pc = "done"

\* One record with action 'view' for the token of view v is appended.
ViewLogged(v) ==
    /\ Len(logs') = Len(logs) + 1
    /\ SubSeq(logs', 1, Len(logs)) = logs
    /\ logs'[Len(logs')].action = "view"
    /\ logs'[Len(logs')].token = views[v].token

\* A POST is accepted exactly when its token is stored, unused, pending and
\* not expired, whatever the log holds.
AcceptanceByToken(r) ==
    LET t == reqs'[r].token IN
    reqs'[r].pc = "save" <=>
       /\ t \in DOMAIN tokens
       /\ ~tokens[t].is_used
       /\ tokens[t].status = "pending"
       /\ now <= tokens[t].expires_at

\* C27 as stated: a GET /evaluate for a valid pending token appends exactly
\* one log record with action 'view' for that token and changes nothing
\* else; views before a submission do not affect its acceptance.
C27_ViewLogsOnce ==
    [][/\ \A v \in Views :
            /\ (views[v].pc = "idle" /\ views'[v].pc # "idle")
                  => UNCHANGED storeVars
            /\ Served(v)
                  => (ViewLogged(v) /\ UNCHANGED <<tokens, submissions, nextId>>)
       /\ \A r \in Requests :
            (Arrives(r) /\ reqs'[r].body # <<>>) => AcceptanceByToken(r)]_vars

\* C27 amended: a GET /evaluate for a valid pending token appends exactly one
\* log record with action 'view' for that token, or none when the log write
\* fails (log_action returns False and the form is served all the same), and
\* changes nothing else; views before a submission do not affect its
\* acceptance.
C27_ViewLogsOnceUnlessFault ==
    [][/\ \A v \in Views :
            /\ (views[v].pc = "idle" /\ views'[v].pc # "idle")
                  => UNCHANGED storeVars
            /\ Served(v)
                  => /\ IF faults' = faults THEN ViewLogged(v)
                        ELSE logs' = logs
                     /\ UNCHANGED <<tokens, submissions, nextId>>
       /\ \A r \in Requests :
            (Arrives(r) /\ reqs'[r].body # <<>>) => AcceptanceByToken(r)]_vars

\* C27 witness: a view of a pending token was logged and served, and a POST
\* for the same token was accepted and consumed it afterwards.
C27_Witness ==
    \E v \in Views :
       /\ views[v].page = "form"
       /\ logs # <<>>
       /\ logs[1].action = "view" /\ logs[1].token = views[v].token
       /\ Success(1) /\ reqs[1].token = views[v].token
       /\ views[v].token \in DOMAIN tokens
       /\ tokens[views[v].token].is_used

\* C28: a log record with action 'submit' for a token exists only if the
\* token is marked used and its submission rows are stored; no 'submit' log
\* exists for a token that is still pending.
C28_SubmitLogAfterEvent ==
    \A i \in DOMAIN logs :
        logs[i].action = "submit" =>
           /\ logs[i].token \in DOMAIN tokens
           /\ tokens[logs[i].token].is_used
           /\ RowsOf(logs[i].token) # <<>>

\* C29: every submission row carries the evaluator_id and target_id of the
\* token it was submitted with, and its evaluator_id differs from its
\* target_id, whatever the request body contains.
C29_RowsBoundToToken ==
    \A i \in DOMAIN submissions :
        LET row == submissions[i] IN
        /\ row.token \in DOMAIN tokens
        /\ row.evaluator_id = tokens[row.token].evaluator_id
        /\ row.target_id = tokens[row.token].target_id
        /\ row.evaluator_id # row.target_id

\* No POST /api/submit handler is in the middle of its work.
Quiescent == \A r \in Requests : reqs[r].pc \in {"idle", "done"}

\* C30: after any sequence of submissions, the score the result collector
\* exports for reviewer u and paper i is the sum of exactly one stored score
\* per question of the token, so it lies in 0..|questions| * S_max, and each
\* (u, i) pair is counted once.
C30_ExportedScoreOnePerQuestion ==
    Quiescent =>
      \A p \in DOMAIN export_for_vancouver :
         LET rows == RowsFor(p[1], p[2]) IN
         /\ \A q \in Range(QUESTIONS) :
               Cardinality({i \in DOMAIN rows : rows[i].question_id = q}) = 1
         /\ Len(rows) = Len(QUESTIONS)
         /\ 0 <= export_for_vancouver[p]
         /\ export_for_vancouver[p] <= Len(QUESTIONS) * max_score_per_question

====
